---- MODULE Spec2Model ----
(***************************************************************************)
(* A model of the Slider component (src/src/components/slider/index.tsx). *)
(*                                                                         *)
(* JavaScript numbers are modelled as exact rationals <<n, d>> in lowest   *)
(* terms (d > 0), with <<0,0>> for NaN and <<1,0>>, <<-1,0>> for the two   *)
(* infinities.  Rounding error of IEEE doubles and the sign of zero are    *)
(* not modelled.  An undefined style field converts to NaN wherever the    *)
(* code uses it (comparison, truthiness), so it is modelled as NaN.       *)
(*                                                                         *)
(* The component is threaded through the operators as one record m:       *)
(*   m.p  this.props          m.k  Constants (the RTL flag)                *)
(*   m.s  this.state          m.t  the instance fields (this._x, ...)      *)
(*   m.c  the callbacks invoked on the host, in order                      *)
(*   m.q  React's queue of pending setState updates                        *)
(***************************************************************************)
EXTENDS Integers, Sequences, FiniteSets, TLC

(* ------------------------- JavaScript numbers ------------------------- *)

Abs(n) == IF n < 0 THEN -n ELSE n

Sign(n) == IF n < 0 THEN -1 ELSE IF n > 0 THEN 1 ELSE 0

\* the one element of a singleton set; a value bound through a set is evaluated once
Only(S) == CHOOSE r \in S : TRUE

\* a local variable: v is computed once and F reads it
Bind(v, F(_)) == Only({F(y) : y \in {v}})

RECURSIVE GCD(_, _)
GCD(a, b) == IF b = 0 THEN a ELSE Only({GCD(y, x % y) : x \in {a}, y \in {b}})

NaN == <<0, 0>>

undefined == NaN

\* n / d as a number: lowest terms, positive denominator; n / 0 is +-Infinity or NaN
Norm(n, d) ==
  Only({IF y = 0 THEN <<Sign(x), 0>>
        ELSE Only({<<(Sign(y) * x) \div g, Abs(y) \div g>> : g \in {GCD(Abs(x), Abs(y))}}) :
        x \in {n}, y \in {d}})

R(n) == <<n, 1>>

IsNaN(a) == a = NaN

Neg(a) == Only({<<-x[1], x[2]>> : x \in {a}})

\* the operands of an operation are evaluated once, as the code evaluates them
Add(a, b) ==
  Only({IF x[2] = 0 /\ y[2] = 0 THEN (IF x = y THEN x ELSE NaN)
        ELSE IF x[2] = 0 THEN x
        ELSE IF y[2] = 0 THEN y
        ELSE Norm(x[1] * y[2] + y[1] * x[2], x[2] * y[2]) : x \in {a}, y \in {b}})

Sub(a, b) == Add(a, Neg(b))

Mul(a, b) == Only({Norm(x[1] * y[1], x[2] * y[2]) : x \in {a}, y \in {b}})

Div(a, b) == Only({Mul(a, Norm(y[2], y[1])) : y \in {b}})

Lt(a, b) ==
  Only({/\ ~IsNaN(x)
        /\ ~IsNaN(y)
        /\ IF x[2] = 0 /\ y[2] = 0 THEN x[1] < y[1] ELSE x[1] * y[2] < y[1] * x[2] :
        x \in {a}, y \in {b}})

Le(a, b) == Only({~IsNaN(x) /\ ~IsNaN(y) /\ ~Lt(y, x) : x \in {a}, y \in {b}})

\* a === b
StrictEq(a, b) == Only({~IsNaN(x) /\ x = b : x \in {a}})

\* ToBoolean(a)
Truthy(a) == a[1] # 0

MathMax(a, b) ==
  Only({IF IsNaN(x) \/ IsNaN(y) THEN NaN ELSE IF Lt(x, y) THEN y ELSE x :
        x \in {a}, y \in {b}})

MathMin(a, b) ==
  Only({IF IsNaN(x) \/ IsNaN(y) THEN NaN ELSE IF Lt(y, x) THEN y ELSE x :
        x \in {a}, y \in {b}})

MathAbs(a) == Only({<<Abs(x[1]), x[2]>> : x \in {a}})

\* Math.round: the nearest integer, a tie going up
MathRound(a) ==
  Only({IF x[2] = 0 THEN x ELSE R((2 * x[1] + x[2]) \div (2 * x[2])) : x \in {a}})

(* ------------------------------ constants ----------------------------- *)

THUMB_SIZE == 24

NoSize == [width |-> -1, height |-> -1]

(* ------------------------------- values ------------------------------- *)

isDefaultThumbActive(m) == m.t.activeThumbRef = "thumb"

\* get disableRTL(): forced LTR is blocked on a range slider
disableRTL(m) == IF m.p.useRange THEN FALSE ELSE m.p.disableRTL

\* dx and tap locations are mirrored when the layout is RTL and LTR is not forced
flipRTL(m) == m.k.isRTL /\ ~disableRTL(m)

getRange(m) == Sub(R(m.p.maximumValue), R(m.p.minimumValue))

getValueInRange(m, value) ==
  IF Lt(value, R(m.p.minimumValue)) THEN R(m.p.minimumValue)
  ELSE IF Lt(R(m.p.maximumValue), value) THEN R(m.p.maximumValue)
  ELSE value

getRoundedValue(m, value) ==
  LET v == getValueInRange(m, value) IN
  IF m.p.step > 0 THEN Mul(MathRound(Div(v, R(m.p.step))), R(m.p.step)) ELSE v

getXForValue(m, value) ==
  LET range == getRange(m)
      relativeValue == Sub(R(m.p.minimumValue), value)
      v == IF m.p.minimumValue < 0 THEN MathAbs(relativeValue)
           ELSE Sub(value, R(m.p.minimumValue))
      ratio == Div(v, range)
  IN Mul(ratio, R(m.s.trackSize.width))

\* a variant that adds the half thumb to the track instead of taking it off
getValueForXWideTrack(m, x) ==
  LET ratio == Div(x, Add(R(m.s.trackSize.width), Div(R(m.t.initialThumbSize.width), R(2))))
      range == getRange(m)
      lo == R(m.p.minimumValue)
      hi == R(m.p.maximumValue)
  IN IF m.p.step # 0
     THEN MathMax(lo, MathMin(hi,
            Add(lo, Mul(MathRound(Div(Mul(ratio, range), R(m.p.step))), R(m.p.step)))))
     ELSE MathMax(lo, MathMin(hi, Add(Mul(ratio, range), lo)))

getValueForX(m, x) ==
  LET ratio == Div(x, Sub(R(m.s.trackSize.width), Div(R(m.t.initialThumbSize.width), R(2))))
      range == getRange(m)
      lo == R(m.p.minimumValue)
      hi == R(m.p.maximumValue)
  IN IF m.p.step # 0
     THEN MathMax(lo, MathMin(hi,
            Add(lo, Mul(MathRound(Div(Mul(ratio, range), R(m.p.step))), R(m.p.step)))))
     ELSE MathMax(lo, MathMin(hi, Add(Mul(ratio, range), lo)))

(* ------------------------------- events ------------------------------- *)

get_x(m) == IF isDefaultThumbActive(m) THEN m.t._x ELSE m.t._x_min

set_x(m, x) ==
  IF isDefaultThumbActive(m) THEN [m EXCEPT !.t._x = x] ELSE [m EXCEPT !.t._x_min = x]

setActiveThumb(m, ref) == [m EXCEPT !.t.activeThumbRef = ref]

\* one invocation of a host callback, with the active offset at that moment
Call(m, cb, value, min, max) ==
  [cb |-> cb, value |-> value, min |-> min, max |-> max, x |-> get_x(m)]

onRangeChange(m, value) ==
  LET m1 == IF isDefaultThumbActive(m) THEN [m EXCEPT !.t.lastValue = value]
            ELSE [m EXCEPT !.t.lastMinValue = value]
      hi == R(m.p.maximumValue)
      mirrored == m.k.isRTL /\ m.p.disableRTL
      min == IF mirrored THEN Sub(hi, m1.t.lastValue) ELSE m1.t.lastMinValue
      max == IF mirrored THEN Sub(hi, m1.t.lastMinValue) ELSE m1.t.lastValue
  IN [m1 EXCEPT !.c = Append(@, Call(m1, "onRangeChange", NaN, min, max))]

onValueChange(m, value) ==
  LET m1 == [m EXCEPT !.t.lastValue = value]
  IN [m1 EXCEPT !.c = Append(@, Call(m1, "onValueChange", value, NaN, NaN))]

onSeekStart(m) == [m EXCEPT !.c = Append(@, Call(m, "onSeekStart", NaN, NaN, NaN))]

onSeekEnd(m) == [m EXCEPT !.c = Append(@, Call(m, "onSeekEnd", NaN, NaN, NaN))]

updateValue(m, x) ==
  LET value == getValueForX(m, x) IN
  IF m.p.useRange THEN onRangeChange(m, value) ELSE onValueChange(m, value)

(* ------------------------------- actions ------------------------------ *)

\* this.thumb.current / this.minThumb.current: the primary thumb is always
\* mounted, the minimum thumb only on a range slider (render)
thumbCurrent(m) == TRUE

minThumbCurrent(m) == m.p.useRange

\* the rendered left of an offset: scaled to the track minus one thumb
leftOf(m, xx) ==
  LET W == R(m.s.trackSize.width)
      nonOverlappingTrackWidth == Sub(W, R(m.t.initialThumbSize.width))
  IN IF m.s.trackSize.width = 0 THEN xx ELSE Div(Mul(xx, nonOverlappingTrackWidth), W)

moveMinTo(m, x) ==
  IF minThumbCurrent(m)
  THEN LET W == R(m.s.trackSize.width)
           nonOverlappingTrackWidth == Sub(W, R(m.t.initialThumbSize.width))
           xx == IF m.t.shouldForceLTR THEN Sub(nonOverlappingTrackWidth, x) ELSE x
           left == leftOf(m, xx)
           maxThumbPosition == m.t._thumbStyles.left
       IN IF Le(left, maxThumbPosition)
          THEN updateValue([m EXCEPT !.t._minThumbStyles.left = left,
                                     !.t._minTrackStyles.width = Sub(maxThumbPosition, x),
                                     !.t._minTrackStyles.left = x], x)
          ELSE m
  ELSE m

moveTo(m, x) ==
  IF isDefaultThumbActive(m)
  THEN IF thumbCurrent(m)
       THEN LET W == R(m.s.trackSize.width)
                xx == IF m.t.shouldForceLTR THEN Sub(W, x) ELSE x
                left == leftOf(m, xx)
                minThumbPosition == m.t._minThumbStyles.left
            IN IF m.p.useRange
               THEN IF Le(minThumbPosition, left)
                    THEN updateValue([m EXCEPT !.t._thumbStyles.left = left,
                                               !.t._minTrackStyles.width =
                                                  Sub(left, minThumbPosition)], x)
                    ELSE m
               ELSE [m EXCEPT !.t._thumbStyles.left = left,
                              !.t._minTrackStyles.width = MathMin(W, x)]
       ELSE m
  ELSE moveMinTo(m, x)

update(m, dx) ==
  Bind(MathMax(MathMin(Add(get_x(m), dx), R(m.s.trackSize.width)), R(0)), LAMBDA x :
    Bind(moveTo(set_x(m, x), x), LAMBDA m1 :
      IF ~m.p.useRange THEN updateValue(m1, x) ELSE m1))

\* a variant that delivers the snapped value as well, as a release that reports would
bounceToStepReporting(m) ==
  IF m.p.step > 0
  THEN Bind(getXForValue(m, getRoundedValue(m, getValueForX(m, get_x(m)))), LAMBDA x :
         updateValue(moveTo(set_x(m, x), x), x))
  ELSE m

bounceToStep(m) ==
  IF m.p.step > 0
  THEN Bind(getValueForX(m, get_x(m)), LAMBDA value :
         Bind(getRoundedValue(m, value), LAMBDA roundedValue :
           Bind(getXForValue(m, roundedValue), LAMBDA x :
             moveTo(set_x(m, x), x))))
  ELSE m

reset(m) ==
  Bind(setActiveThumb([m EXCEPT !.t.lastValue = m.t.initialValue,
                                !.t.lastMinValue = m.t.minInitialValue,
                                !.t.lastDx = R(0)], "thumb"), LAMBDA m2 :
    Bind(update(set_x(m2, getXForValue(m2, m2.t.initialValue)), R(0)), LAMBDA m3 :
      Bind(setActiveThumb(m3, "minThumb"), LAMBDA m4 :
        update(set_x(m4, getXForValue(m4, m4.t.minInitialValue)), R(0)))))

\* a variant that never changes the active thumb
updateTrackStepKeepingThumb(m, locationX) ==
  Bind(IF flipRTL(m) THEN Sub(R(m.s.trackSize.width), locationX) ELSE locationX,
       LAMBDA newX :
    Bind(set_x(m, newX), LAMBDA m2 :
      Bind(IF ~m.p.useRange THEN updateValue(m2, get_x(m2)) ELSE m2, LAMBDA m3 :
        IF m.p.step > 0 THEN bounceToStep(m3) ELSE moveTo(m3, get_x(m3)))))

updateTrackStepAndStyle(m, locationX) ==
  Bind(IF flipRTL(m) THEN Sub(R(m.s.trackSize.width), locationX) ELSE locationX,
       LAMBDA newX :
    Bind(IF m.p.useRange
         THEN IF /\ isDefaultThumbActive(m)
                 /\ Truthy(m.t._minThumbStyles.left)
                 /\ Lt(newX, m.t._minThumbStyles.left)
              THEN setActiveThumb(m, "minThumb")
              ELSE IF /\ ~isDefaultThumbActive(m)
                      /\ Truthy(m.t._thumbStyles.left)
                      /\ Lt(m.t._thumbStyles.left, newX)
                   THEN setActiveThumb(m, "thumb")
                   ELSE m
         ELSE m, LAMBDA m1 :
      Bind(set_x(m1, newX), LAMBDA m2 :
        Bind(IF ~m.p.useRange THEN updateValue(m2, get_x(m2)) ELSE m2, LAMBDA m3 :
          IF m.p.step > 0 THEN bounceToStep(m3) ELSE moveTo(m3, get_x(m3))))))

(* --------------------------- gesture recognizer ----------------------- *)

handlePanResponderGrant(m) == onSeekStart([m EXCEPT !.t.lastDx = R(0)])

\* a variant that follows the finger on a disabled slider as well
handlePanResponderMoveEnabled(m, gdx) ==
  LET dx == IF flipRTL(m) THEN Neg(gdx) ELSE gdx
  IN [update(m, Sub(dx, m.t.lastDx)) EXCEPT !.t.lastDx = dx]

\* a variant that adds the whole cumulative delta at every move
handlePanResponderMoveAbsolute(m, gdx) ==
  IF m.p.disabled THEN m
  ELSE LET dx == IF flipRTL(m) THEN Neg(gdx) ELSE gdx
       IN [update(m, dx) EXCEPT !.t.lastDx = dx]

handlePanResponderMove(m, gdx) ==
  IF m.p.disabled THEN m
  ELSE LET dx == IF flipRTL(m) THEN Neg(gdx) ELSE gdx
       IN [update(m, Sub(dx, m.t.lastDx)) EXCEPT !.t.lastDx = dx]

\* a variant that notifies the end of the seek before it snaps
handlePanResponderEndEarly(m) == bounceToStep(onSeekEnd(m))

handlePanResponderEnd(m) == onSeekEnd(bounceToStep(m))

onTouchStart(m) == setActiveThumb(m, "thumb")

onMinTouchStart(m) == setActiveThumb(m, "minThumb")

handleTrackPress(m, locationX) ==
  IF m.p.disabled THEN m
  ELSE onSeekEnd(updateTrackStepAndStyle(onSeekStart(m), locationX))

onAccessibilityAction(m, actionName) ==
  Bind(getValueForX(m, m.t._x), LAMBDA value :
    Bind(CASE actionName = "increment" ->
                IF ~StrictEq(value, R(m.p.maximumValue))
                THEN Add(value, R(m.p.step)) ELSE value
           [] actionName = "decrement" ->
                IF ~StrictEq(value, R(m.p.minimumValue))
                THEN Sub(value, R(m.p.step)) ELSE value
           [] OTHER -> value, LAMBDA newValue :
      Bind([m EXCEPT !.t._x = getXForValue(m, newValue)], LAMBDA m1 :
        moveTo(updateValue(m1, m1.t._x), m1.t._x))))

(* ------------------------- React state updates ----------------------- *)

\* this.setState(partial, callback): queued, applied when the handler returns
setState(m, partial, callback) ==
  [m EXCEPT !.q = Append(@, [partial |-> partial, callback |-> callback])]

Merge(s, partial) ==
  [f \in DOMAIN s |-> IF f \in DOMAIN partial THEN partial[f] ELSE s[f]]

RECURSIVE ApplyAll(_, _)
ApplyAll(s, q) ==
  IF q = <<>> THEN s
  ELSE Only({ApplyAll(s1, q1) : s1 \in {Merge(s, Head(q).partial)}, q1 \in {Tail(q)}})

componentDidUpdate(m, prevProps, prevState) ==
  Bind(IF ~m.p.useRange /\ prevProps.value # m.p.value
       THEN Bind([m EXCEPT !.t.initialValue = getRoundedValue(m, R(m.p.value))], LAMBDA a :
              Bind([a EXCEPT !.t._x = getXForValue(a, a.t.initialValue)], LAMBDA b :
                moveTo(b, b.t._x)))
       ELSE m, LAMBDA m1 :
    IF prevState.measureCompleted # m1.s.measureCompleted
    THEN Bind([m1 EXCEPT !.t.initialThumbSize = m1.s.thumbSize], LAMBDA a :
           Bind([a EXCEPT !.t._x = getXForValue(a, a.t.initialValue),
                          !.t._x_min = getXForValue(a, a.t.minInitialValue)], LAMBDA b :
             moveTo(b, b.t._x)))
    ELSE m1)

\* The batched updates of one handler are applied together, componentDidUpdate
\* runs, then the setState callbacks run (handleMeasure's marks the measurement
\* completed), which is a second update with its own componentDidUpdate.
render(m) ==
  IF m.q = <<>> THEN m
  ELSE componentDidUpdate([m EXCEPT !.s = ApplyAll(m.s, m.q), !.q = <<>>], m.p, m.s)

flush(m) ==
  Bind(render(m), LAMBDA m1 :
    IF \E i \in 1..Len(m.q) : m.q[i].callback
    THEN render(setState(m1, [measureCompleted |-> TRUE], FALSE))
    ELSE m1)

handleMeasure(m, name, size) ==
  LET currentSize == m.t[name] IN
  IF currentSize # NoSize /\ size.width = currentSize.width /\ size.height = currentSize.height
  THEN m
  ELSE LET m1 == [m EXCEPT !.t[name] = size] IN
       IF m1.t.containerSize # NoSize /\ m1.t.thumbSize # NoSize /\ m1.t.trackSize # NoSize
       THEN setState(m1, [containerSize |-> m1.t.containerSize,
                          trackSize |-> m1.t.trackSize,
                          thumbSize |-> m1.t.thumbSize], TRUE)
       ELSE m1

onContainerLayout(m, size) == handleMeasure(m, "containerSize", size)

onTrackLayout(m, size) ==
  handleMeasure(setState(m, [measureCompleted |-> FALSE], FALSE), "trackSize", size)

onThumbLayout(m, size) == handleMeasure(m, "thumbSize", size)

onOrientationChanged(m) ==
  setState([m EXCEPT !.t.initialValue = m.t.lastValue,
                     !.t.minInitialValue = m.t.lastMinValue],
           [measureCompleted |-> FALSE], FALSE)

\* the parent re-renders the slider with a new value prop (a range slider does
\* not read it)
receiveValueProp(m, v) == componentDidUpdate([m EXCEPT !.p.value = v], m.p, m.s)

(* ------------------------------ the machine --------------------------- *)

VARIABLES
  props,      \* this.props
  Constants,  \* the platform's layout direction
  state,      \* this.state
  this,       \* the instance fields
  calls,      \* the host callbacks invoked by the last handler, in order
  event,      \* the last handler that ran: its input, and the active thumb and its
              \* offset when it started
  responder,  \* the gesture responder: "idle" or "seeking" (one pointer)
  seek,       \* history: onSeekStart/onSeekEnd calls seen so far, as a balance
  reported,   \* history: the last value delivered to onValueChange/onRangeChange
  recovery,   \* history: the committed values at the last orientation change of a
              \* measured slider, while no interaction followed it
  drag,       \* history: the onValueChange values of the drag in progress
  conv,       \* the number of events so far that are neither gestures nor first layouts
  probe,      \* the last conversion applied on its own, with its arguments and results
  due,        \* the layouts the platform owes the slider since the last orientation
              \* change, where the model follows the re-measurement
  gesture     \* history: the offsets of the two thumbs when the gesture in progress
              \* started, while the finger has stayed over the track

vars == <<props, Constants, state, this, calls, event, responder, seek, reported,
          recovery, drag, conv, probe, due, gesture>>

\* bounds of the model
MaxConv == 1

Configs == {<<-2, 2, 0>>, <<0, 4, 1>>}

InitialValues == {<<1, 1, 3>>}

DxSet == {-6, 6, 12}

TapSet == {3, 9}

\* layout direction and the disableRTL prop; disableRTL has no effect in LTR
Directions == {<<FALSE, FALSE>>, <<TRUE, FALSE>>, <<TRUE, TRUE>>}

PropValues == {1, 4}

LTR == <<FALSE, FALSE>>

\* the configurations explored: every mode and step in LTR, both RTL variants and
\* the disabled slider on the stepped configuration
Setups ==
  {u \in [useRange : BOOLEAN, disabled : BOOLEAN, dir : Directions, cfg : Configs] :
     (u.disabled \/ u.dir # LTR) => (u.cfg[3] > 0 /\ ~(u.disabled /\ u.dir # LTR))}

ContainerSizes == {[width |-> 12, height |-> 28]}

TrackSizes == {[width |-> 12, height |-> 6], [width |-> 24, height |-> 6]}

\* the track as it is laid out on mount; a later layout reports any of TrackSizes
MountTrackSize == [width |-> 12, height |-> 6]

ThumbSizes == {[width |-> 4, height |-> 4]}

\* the component as the operators take it
Cur == [p |-> props, k |-> Constants, s |-> state, t |-> this, c |-> <<>>, q |-> <<>>]

\* new Slider(props): the field initializers and the constructor
construct(p, k) ==
  LET m0 == [p |-> p, k |-> k, c |-> <<>>, q |-> <<>>,
             s |-> [containerSize |-> [width |-> 0, height |-> 0],
                    trackSize |-> [width |-> 0, height |-> 0],
                    thumbSize |-> [width |-> 0, height |-> 0],
                    measureCompleted |-> FALSE],
             t |-> [activeThumbRef |-> "thumb"]]
      initialValue == getRoundedValue(m0,
                        R(IF p.useRange THEN p.initialMaximumValue ELSE p.value))
      minInitialValue == getRoundedValue(m0, R(p.initialMinimumValue))
  IN [m0 EXCEPT !.t =
        [activeThumbRef |-> "thumb",
         _minTrackStyles |-> [width |-> undefined, left |-> undefined],
         _x |-> R(0), _x_min |-> R(0), lastDx |-> R(0),
         initialValue |-> initialValue, minInitialValue |-> minInitialValue,
         lastValue |-> initialValue, lastMinValue |-> minInitialValue,
         _thumbStyles |-> [left |-> undefined],
         _minThumbStyles |-> [left |-> R(0)],
         initialThumbSize |-> [width |-> THUMB_SIZE, height |-> THUMB_SIZE],
         containerSize |-> NoSize, trackSize |-> NoSize, thumbSize |-> NoSize,
         shouldForceLTR |-> k.isRTL /\ disableRTL(m0)]]

NoReport == [value |-> NaN, min |-> NaN, max |-> NaN]

NoRecovery == [on |-> FALSE, lastValue |-> NaN, lastMinValue |-> NaN,
               reported |-> NoReport, same |-> TRUE]

NoDrag == [pure |-> FALSE, first |-> TRUE, lastG |-> 0, sorted |-> TRUE,
           any |-> FALSE, last |-> NaN, n |-> 0]

NoGesture == [free |-> FALSE, start |-> NaN, other |-> NaN]

NoProbe == [op |-> "none", a |-> NaN, b |-> NaN, fa |-> NaN, fb |-> NaN]

Init ==
  /\ \E u \in Setups, iv \in InitialValues :
       LET cfg == u.cfg  dir == u.dir  useRange == u.useRange  disabled == u.disabled IN
       /\ Constants = [isRTL |-> dir[1]]
       /\ props = [value |-> cfg[1] + iv[1],
                   initialMinimumValue |-> cfg[1] + iv[2],
                   initialMaximumValue |-> cfg[1] + iv[3],
                   minimumValue |-> cfg[1], maximumValue |-> cfg[2], step |-> cfg[3],
                   useRange |-> useRange, disabled |-> disabled, disableRTL |-> dir[2]]
  /\ state = construct(props, Constants).s
  /\ this = construct(props, Constants).t
  /\ calls = <<>>
  /\ event = [name |-> "constructor", arg |-> 0, x0 |-> R(0), ref0 |-> "thumb"]
  /\ responder = "idle"
  /\ seek = [open |-> 0, ok |-> TRUE]
  /\ reported = NoReport
  /\ recovery = NoRecovery
  /\ drag = NoDrag
  /\ conv = 0
  /\ probe = NoProbe
  /\ due = {}
  /\ gesture = NoGesture

(* history variables, computed from what the handler did *)

IsValueCall(c) == c.cb \in {"onValueChange", "onRangeChange"}

IsUserEvent(name) ==
  name \in {"touchStart", "move", "release", "trackPress", "accessibilityAction",
            "reset", "valueProp"}

RECURSIVE SeekAfter(_, _)
SeekAfter(sk, cs) ==
  IF cs = <<>> THEN sk
  ELSE LET c == Head(cs)
           nx == IF c.cb = "onSeekStart"
                 THEN [open |-> 1, ok |-> sk.ok /\ sk.open = 0]
                 ELSE IF c.cb = "onSeekEnd"
                      THEN [open |-> 0, ok |-> sk.ok /\ sk.open = 1]
                      ELSE sk
       IN Only({SeekAfter(a, b) : a \in {nx}, b \in {Tail(cs)}})

RECURSIVE LastReport(_, _)
LastReport(rep, cs) ==
  IF cs = <<>> THEN rep
  ELSE Only({LastReport(a, b) :
               a \in {IF IsValueCall(Head(cs))
                      THEN [value |-> Head(cs).value, min |-> Head(cs).min,
                            max |-> Head(cs).max]
                      ELSE rep},
               b \in {Tail(cs)}})

SameReports(rep, cs) ==
  \A i \in 1..Len(cs) :
     IsValueCall(cs[i]) =>
        [value |-> cs[i].value, min |-> cs[i].min, max |-> cs[i].max] = rep

RecoveryAfter(ev, m2) ==
  IF ev.name = "orientation"
  THEN [on |-> state.measureCompleted,
        lastValue |-> this.lastValue, lastMinValue |-> this.lastMinValue,
        reported |-> reported, same |-> SameReports(reported, m2.c)]
  ELSE IF IsUserEvent(ev.name) THEN NoRecovery
  ELSE IF recovery.on
       THEN [recovery EXCEPT !.same = @ /\ SameReports(recovery.reported, m2.c)]
       ELSE recovery

RECURSIVE DragValues(_, _)
DragValues(d, cs) ==
  IF cs = <<>> THEN d
  ELSE LET c == Head(cs)
           nx == IF c.cb = "onValueChange"
                 THEN [d EXCEPT !.sorted = @ /\ (~d.any \/ Le(d.last, c.value)),
                                !.any = TRUE, !.last = c.value]
                 ELSE d
       IN Only({DragValues(a, b) : a \in {nx}, b \in {Tail(cs)}})

DragAfter(ev, m2) ==
  IF props.useRange \/ props.step # 0 THEN NoDrag
  ELSE IF ev.name = "touchStart"
  THEN IF ev.arg = 1 /\ this._x = R(0) THEN [NoDrag EXCEPT !.pure = TRUE] ELSE NoDrag
  ELSE IF ev.name = "move" /\ drag.pure /\ (drag.first \/ drag.lastG <= ev.arg)
       THEN DragValues([drag EXCEPT !.first = FALSE, !.lastG = ev.arg,
                                    !.n = IF @ < 2 THEN @ + 1 ELSE @], m2.c)
       ELSE NoDrag

\* the horizontal delta of a gesture as the slider reads it
Flipped(gdx) == IF flipRTL(Cur) THEN Neg(R(gdx)) ELSE R(gdx)

\* a touch starts a gesture at the offsets the thumbs then have; a move that takes the
\* finger beyond an end of the track ends the history, and so does any other event
GestureAfter(ev, m2) ==
  IF ev.name = "touchStart"
  THEN [free |-> TRUE, start |-> get_x(m2),
        other |-> IF isDefaultThumbActive(m2) THEN m2.t._x_min ELSE m2.t._x]
  ELSE IF /\ ev.name = "move"
          /\ gesture.free
          /\ Le(R(0), Add(gesture.start, Flipped(ev.arg)))
          /\ Le(Add(gesture.start, Flipped(ev.arg)), R(state.trackSize.width))
       THEN gesture
       ELSE NoGesture

\* the views are laid out before they can be touched
measured ==
  /\ this.containerSize # NoSize
  /\ this.trackSize # NoSize
  /\ this.thumbSize # NoSize

\* a layout the slider waits for: an element's first, or one of a re-measurement
Pending(field) == this[field] = NoSize \/ (measured /\ ~state.measureCompleted)

\* the events the model bounds in number: everything but gestures, taps and the
\* layouts the slider waits for; the model follows the user's interaction up to
\* the last of them
Budgeted(name) ==
  \/ name \in {"accessibilityAction", "orientation", "reset", "valueProp"}
  \/ name = "containerLayout" /\ ~Pending("containerSize")
  \/ name = "trackLayout" /\ ~Pending("trackSize")
  \/ name = "thumbLayout" /\ ~Pending("thumbSize")

\* the handler has run to completion: its effects and the history
Effects(ev, m2) ==
  /\ props' = m2.p
  /\ Constants' = m2.k
  /\ state' = m2.s
  /\ this' = m2.t
  /\ calls' = m2.c
  /\ event' = [name |-> ev.name, arg |-> ev.arg, x0 |-> get_x(Cur),
                ref0 |-> this.activeThumbRef]
  /\ seek' = SeekAfter(seek, m2.c)
  /\ reported' = LastReport(reported, m2.c)
  /\ recovery' = RecoveryAfter(ev, m2)
  /\ drag' = DragAfter(ev, m2)
  /\ conv' = IF Budgeted(ev.name) THEN conv + 1 ELSE conv
  /\ gesture' = GestureAfter(ev, m2)

Deliver(ev, m2) == Effects(ev, m2) /\ UNCHANGED <<probe, due>>

(* the events *)

\* a finger lands on a thumb: its onTouchStart, then the responder is granted
ThumbTouchStart ==
  /\ responder = "idle"
  /\ measured
  /\ conv < MaxConv
  /\ \E ref \in {"thumb", "minThumb"} :
       /\ ref = "minThumb" => props.useRange
       /\ Deliver([name |-> "touchStart", arg |-> IF ref = "thumb" THEN 1 ELSE 2],
                  flush(handlePanResponderGrant(
                     IF ref = "thumb" THEN onTouchStart(Cur) ELSE onMinTouchStart(Cur))))
  /\ responder' = "seeking"

PanMove ==
  /\ responder = "seeking"
  /\ \E gdx \in DxSet :
       Deliver([name |-> "move", arg |-> gdx], flush(handlePanResponderMove(Cur, R(gdx))))
  /\ UNCHANGED responder

PanRelease ==
  /\ responder = "seeking"
  /\ Deliver([name |-> "release", arg |-> 0], flush(handlePanResponderEnd(Cur)))
  /\ responder' = "idle"

TrackPress ==
  /\ responder = "idle"
  /\ measured
  /\ conv < MaxConv
  /\ \E locationX \in TapSet :
       /\ locationX <= state.trackSize.width
       /\ Deliver([name |-> "trackPress", arg |-> locationX],
                  flush(handleTrackPress(Cur, R(locationX))))
  /\ UNCHANGED responder

AccessibilityAction ==
  /\ responder = "idle"
  /\ conv < MaxConv
  /\ \E a \in {1, -1} :
       Deliver([name |-> "accessibilityAction", arg |-> a],
               flush(onAccessibilityAction(Cur, IF a = 1 THEN "increment" ELSE "decrement")))
  /\ UNCHANGED responder

Reset ==
  /\ responder = "idle"
  /\ conv < MaxConv
  /\ Deliver([name |-> "reset", arg |-> 0], flush(reset(Cur)))
  /\ UNCHANGED responder

ValueProp ==
  /\ responder = "idle"
  /\ ~props.useRange
  /\ conv < MaxConv
  /\ \E v \in PropValues :
       /\ v # props.value
       /\ Deliver([name |-> "valueProp", arg |-> v], flush(receiveValueProp(Cur, v)))
  /\ UNCHANGED responder

ContainerLayout ==
  /\ responder = "idle"
  /\ \E size \in ContainerSizes :
       /\ ~Pending("containerSize") => conv < MaxConv
       /\ Deliver([name |-> "containerLayout", arg |-> size.width],
                  flush(onContainerLayout(Cur, size)))
  /\ UNCHANGED responder

TrackLayout ==
  /\ responder = "idle"
  /\ \E size \in TrackSizes :
       /\ this.trackSize = NoSize => size = MountTrackSize
       /\ ~Pending("trackSize") => conv < MaxConv
       /\ Deliver([name |-> "trackLayout", arg |-> size.width], flush(onTrackLayout(Cur, size)))
  /\ UNCHANGED responder

ThumbLayout ==
  /\ responder = "idle"
  /\ \E size \in ThumbSizes :
       /\ ~Pending("thumbSize") => conv < MaxConv
       /\ Deliver([name |-> "thumbLayout", arg |-> size.width], flush(onThumbLayout(Cur, size)))
  /\ UNCHANGED responder

OrientationChanged ==
  /\ responder = "idle"
  /\ conv < MaxConv
  /\ Deliver([name |-> "orientation", arg |-> 0], flush(onOrientationChanged(Cur)))
  /\ UNCHANGED responder

Next ==
  \/ ThumbTouchStart
  \/ PanMove
  \/ PanRelease
  \/ TrackPress
  \/ AccessibilityAction
  \/ Reset
  \/ ValueProp
  \/ ContainerLayout
  \/ TrackLayout
  \/ ThumbLayout
  \/ OrientationChanged

Spec == Init /\ [][Next]_vars

\* the slider with one thumb
InitSingle == Init /\ ~props.useRange

SpecSingle == InitSingle /\ [][Next]_vars

\* the user's touches on a slider that is laid out
NextTouch ==
  \/ ThumbTouchStart
  \/ PanMove
  \/ PanRelease
  \/ TrackPress
  \/ ContainerLayout
  \/ TrackLayout
  \/ ThumbLayout

SpecTouch == Init /\ [][NextTouch]_vars

(* ---------------------- the conversions on their own ------------------ *)

ConvConfigs == {<<0, 4, 1>>, <<0, 4, 2>>, <<-2, 2, 0>>, <<-2, 2, 1>>, <<0, 4, 3>>}

ConvTrackWidths == {6, 12}

ConvThumbWidths == {4, 12}

\* the slider once mounted and laid out: the constructor and the three layouts
mount(p, k, containerSize, trackSize, thumbSize) ==
  flush(onThumbLayout(flush(onTrackLayout(flush(onContainerLayout(construct(p, k),
    containerSize)), trackSize)), thumbSize))

InitConv ==
  /\ \E cfg \in ConvConfigs, W \in ConvTrackWidths, T \in ConvThumbWidths :
       \E m \in {mount([value |-> cfg[1], initialMinimumValue |-> cfg[1],
                         initialMaximumValue |-> cfg[2], minimumValue |-> cfg[1],
                         maximumValue |-> cfg[2], step |-> cfg[3], useRange |-> FALSE,
                         disabled |-> FALSE, disableRTL |-> FALSE],
                        [isRTL |-> FALSE], [width |-> W, height |-> 28],
                        [width |-> W, height |-> 6], [width |-> T, height |-> T])} :
          props = m.p /\ Constants = m.k /\ state = m.s /\ this = m.t
  /\ calls = <<>>
  /\ event = [name |-> "mount", arg |-> 0, x0 |-> R(0), ref0 |-> "thumb"]
  /\ responder = "idle"
  /\ seek = [open |-> 0, ok |-> TRUE]
  /\ reported = NoReport
  /\ recovery = NoRecovery
  /\ drag = NoDrag
  /\ conv = 0
  /\ probe = NoProbe
  /\ due = {}
  /\ gesture = NoGesture

\* getValueForX at two offsets of the track, x1 <= x2
ValueForX ==
  /\ \E x1 \in 0..state.trackSize.width, x2 \in 0..state.trackSize.width :
       /\ x1 <= x2
       /\ probe' = [op |-> "getValueForX", a |-> R(x1), b |-> R(x2),
                    fa |-> getValueForX(Cur, R(x1)), fb |-> getValueForX(Cur, R(x2))]
  /\ UNCHANGED <<props, Constants, state, this, calls, event, responder, seek,
                 reported, recovery, drag, conv, due, gesture>>

\* a value of the range, in halves, to its offset and back
RoundTrip ==
  /\ \E h \in 0..(2 * (props.maximumValue - props.minimumValue)) :
       \E v \in {Norm(2 * props.minimumValue + h, 2)} :
          probe' = [op |-> "roundTrip", a |-> v, b |-> getXForValue(Cur, v),
                    fa |-> getValueForX(Cur, getXForValue(Cur, v)),
                    fb |-> getRoundedValue(Cur, v)]
  /\ UNCHANGED <<props, Constants, state, this, calls, event, responder, seek,
                 reported, recovery, drag, conv, due, gesture>>

NextConv ==
  \/ ValueForX
  \/ RoundTrip

SpecConv == InitConv /\ [][NextConv]_vars

(* the re-measurement: layouts and orientation changes only. The platform lays each
   element out once on mount and once more after every orientation change, with
   the size the element then has, and delivers nothing else. *)
Layouts == {"containerLayout", "trackLayout", "thumbLayout"}

Owed(name, field) == this[field] = NoSize \/ name \in due

OwedContainerLayout ==
  /\ Owed("containerLayout", "containerSize")
  /\ \E size \in ContainerSizes :
       \E m2 \in {flush(onContainerLayout(Cur, size))} :
          Effects([name |-> "containerLayout", arg |-> size.width], m2)
  /\ due' = due \ {"containerLayout"}
  /\ UNCHANGED <<responder, probe>>

OwedTrackLayout ==
  /\ Owed("trackLayout", "trackSize")
  /\ \E size \in TrackSizes :
       /\ this.trackSize = NoSize => size = MountTrackSize
       /\ \E m2 \in {flush(onTrackLayout(Cur, size))} :
             Effects([name |-> "trackLayout", arg |-> size.width], m2)
  /\ due' = due \ {"trackLayout"}
  /\ UNCHANGED <<responder, probe>>

OwedThumbLayout ==
  /\ Owed("thumbLayout", "thumbSize")
  /\ \E size \in ThumbSizes :
       \E m2 \in {flush(onThumbLayout(Cur, size))} :
          Effects([name |-> "thumbLayout", arg |-> size.width], m2)
  /\ due' = due \ {"thumbLayout"}
  /\ UNCHANGED <<responder, probe>>

\* the device is rotated: the listener runs and the platform lays the views out again
Rotate ==
  /\ conv < MaxConv
  /\ \E m2 \in {flush(onOrientationChanged(Cur))} :
       Effects([name |-> "orientation", arg |-> 0], m2)
  /\ due' = Layouts
  /\ UNCHANGED <<responder, probe>>

NextMeasure ==
  \/ OwedContainerLayout
  \/ OwedTrackLayout
  \/ OwedThumbLayout
  \/ Rotate

\* every layout the platform owes is delivered
SpecMeasure ==
  /\ Init
  /\ [][NextMeasure]_vars
  /\ WF_vars(OwedContainerLayout)
  /\ WF_vars(OwedTrackLayout)
  /\ WF_vars(OwedThumbLayout)

\* valid configurations whose step does not divide the range, the second with a
\* minimum that is not a multiple of the step
UnevenConfigs == {<<0, 3, 2>>, <<1, 4, 3>>}

InitUneven ==
  /\ \E cfg \in UnevenConfigs, useRange \in BOOLEAN, iv \in InitialValues :
       /\ Constants = [isRTL |-> FALSE]
       /\ props = [value |-> cfg[1] + iv[1],
                   initialMinimumValue |-> cfg[1] + iv[2],
                   initialMaximumValue |-> cfg[1] + iv[3],
                   minimumValue |-> cfg[1], maximumValue |-> cfg[2], step |-> cfg[3],
                   useRange |-> useRange, disabled |-> FALSE, disableRTL |-> FALSE]
  /\ state = construct(props, Constants).s
  /\ this = construct(props, Constants).t
  /\ calls = <<>>
  /\ event = [name |-> "constructor", arg |-> 0, x0 |-> R(0), ref0 |-> "thumb"]
  /\ responder = "idle"
  /\ seek = [open |-> 0, ok |-> TRUE]
  /\ reported = NoReport
  /\ recovery = NoRecovery
  /\ drag = NoDrag
  /\ conv = 0
  /\ probe = NoProbe
  /\ due = {}
  /\ gesture = NoGesture

SpecUneven == InitUneven /\ [][Next]_vars

\* a slider whose range is one point: checkProps warns and construction goes on
DegenerateConfigs == {<<0, 0, 0>>, <<2, 2, 0>>, <<2, 2, 1>>, <<-1, -1, 0>>}

InitDegenerate ==
  /\ \E cfg \in DegenerateConfigs, W \in ConvTrackWidths, thumbSize \in ThumbSizes :
       \E m \in {mount([value |-> cfg[1], initialMinimumValue |-> cfg[1],
                         initialMaximumValue |-> cfg[2], minimumValue |-> cfg[1],
                         maximumValue |-> cfg[2], step |-> cfg[3], useRange |-> FALSE,
                         disabled |-> FALSE, disableRTL |-> FALSE],
                        [isRTL |-> FALSE], [width |-> W, height |-> 28],
                        [width |-> W, height |-> 6], thumbSize)} :
          props = m.p /\ Constants = m.k /\ state = m.s /\ this = m.t
  /\ calls = <<>>
  /\ event = [name |-> "mount", arg |-> 0, x0 |-> R(0), ref0 |-> "thumb"]
  /\ responder = "idle"
  /\ seek = [open |-> 0, ok |-> TRUE]
  /\ reported = NoReport
  /\ recovery = NoRecovery
  /\ drag = NoDrag
  /\ conv = 0
  /\ probe = NoProbe
  /\ due = {}
  /\ gesture = NoGesture

SpecDegenerate == InitDegenerate /\ [][NextConv]_vars

(* ------------------------------ properties --------------------------- *)

\* the calls of the last handler that deliver a value
ValueCalls == {i \in 1..Len(calls) : IsValueCall(calls[i])}

\* the last handler was a gesture move on a range slider that is measured
RangeMove == props.useRange /\ ~props.disabled /\ state.measureCompleted

\* the offset a move with cumulative delta gdx asks for
Target(gdx) ==
  MathMax(MathMin(Add(get_x(Cur), Sub(IF flipRTL(Cur) THEN Neg(R(gdx)) ELSE R(gdx),
                                      this.lastDx)),
                  R(state.trackSize.width)), R(0))

\* the move would take the active thumb across the other one
Crossing(gdx) ==
  IF isDefaultThumbActive(Cur) THEN Lt(Target(gdx), this._x_min)
  ELSE Lt(this._x, Target(gdx))

\* C1: on a measured range slider the primary thumb's offset is never below the
\* minimum thumb's offset, whatever touches, moves, releases and taps happened.
PrimaryOffsetAtLeastMinimum ==
  props.useRange /\ state.measureCompleted => Le(this._x_min, this._x)

\* C2: on a range slider a move that would make the thumbs cross changes nothing:
\* the stored offsets, the displayed positions, the track segment and the committed
\* values are as before, and onRangeChange is not invoked.
CrossingMoveIsNoOp ==
  [][(event'.name = "move" /\ RangeMove /\ Crossing(event'.arg)) =>
        /\ this'._x = this._x
        /\ this'._x_min = this._x_min
        /\ this'._thumbStyles = this._thumbStyles
        /\ this'._minThumbStyles = this._minThumbStyles
        /\ this'._minTrackStyles = this._minTrackStyles
        /\ this'.lastValue = this.lastValue
        /\ this'.lastMinValue = this.lastMinValue
        /\ \A i \in 1..Len(calls') : calls'[i].cb # "onRangeChange"]_vars

\* the last handler was the release of a drag on a stepped slider with one thumb
SteppedRelease == event.name = "release" /\ ~props.useRange /\ props.step > 0

\* C3 as the spec states it: on a stepped slider with one thumb, releasing a drag
\* invokes onValueChange with the stepped value of the snapped offset, before
\* onSeekEnd.
ReleaseReportsSteppedValue ==
  SteppedRelease =>
     \E i \in 1..Len(calls) :
        /\ calls[i].cb = "onValueChange"
        /\ calls[i].value = getValueForX(Cur, this._x)
        /\ \E j \in (i + 1)..Len(calls) : calls[j].cb = "onSeekEnd"

\* C3: on a stepped slider with one thumb, releasing a drag moves the thumb's offset
\* to the offset of the stepped value nearest to the value at the release offset and
\* then invokes onSeekEnd; the release itself delivers no value: the committed value
\* and the last reported value stay those of the last move.
ReleaseSnapsThenSeekEnd ==
  SteppedRelease =>
     /\ this._x = getXForValue(Cur, getRoundedValue(Cur, getValueForX(Cur, event.x0)))
     /\ Len(calls) = 1
     /\ calls[1].cb = "onSeekEnd"
     /\ calls[1].x = this._x
     /\ ~IsNaN(reported.value) => reported.value = this.lastValue

\* a release whose snap moved the thumb
ReleaseSnapped == SteppedRelease /\ event.x0 # this._x /\ ~IsNaN(reported.value)

\* C4: after an orientation change of a measured slider and the re-measurement that follows it, with no
\* interaction in between, the committed value and (on a range slider) the committed
\* minimum value are those of before the change, and every value reported since the
\* change equals the value last reported before it.
OrientationKeepsValue ==
  recovery.on /\ state.measureCompleted =>
     /\ this.lastValue = recovery.lastValue
     /\ props.useRange => this.lastMinValue = recovery.lastMinValue
     /\ recovery.same

\* the minimum and the maximum onRangeChange reports for the committed values
ReportedMin ==
  IF Constants.isRTL /\ props.disableRTL
  THEN Sub(R(props.maximumValue), this.lastValue) ELSE this.lastMinValue

\* where a tap at locationX lands on the track
TapX(locationX) ==
  IF flipRTL(Cur) THEN Sub(R(state.trackSize.width), R(locationX)) ELSE R(locationX)

ReportedMax ==
  IF Constants.isRTL /\ props.disableRTL
  THEN Sub(R(props.maximumValue), this.lastMinValue) ELSE this.lastValue

\* the slider's value stands at the boundary the accessibility action a pushes against
AtBoundary(a) ==
  LET bound == R(IF a = 1 THEN props.maximumValue ELSE props.minimumValue) IN
  this.lastValue = bound /\ getValueForX(Cur, this._x) = bound

\* C6: an accessibility increment when the value equals maximumValue, and a decrement
\* when it equals minimumValue, changes nothing: the committed values and the primary
\* thumb's offset are as before and no callback delivers a different value.
AccessibilityAtBoundaryIsNoOp ==
  [][(event'.name = "accessibilityAction" /\ AtBoundary(event'.arg)) =>
        /\ this'.lastValue = this.lastValue
        /\ this'.lastMinValue = this.lastMinValue
        /\ this'._x = this._x
        /\ \A i \in 1..Len(calls') :
              /\ calls'[i].cb = "onValueChange" => calls'[i].value = this.lastValue
              /\ calls'[i].cb = "onRangeChange" =>
                    calls'[i].min = ReportedMin /\ calls'[i].max = ReportedMax]_vars

\* C7: on an unstepped slider with one thumb that is laid out, a drag that starts
\* with the thumb at offset 0 and whose moves carry non-decreasing cumulative deltas
\* delivers a non-decreasing sequence of values to onValueChange, and when it has
\* taken the thumb to the track's width the last value delivered is maximumValue.
DragToEndIsMonotone ==
  drag.pure =>
     /\ drag.sorted
     /\ (event.name = "move" /\ this._x = R(state.trackSize.width)) =>
           drag.any /\ drag.last = R(props.maximumValue)

\* a drag of two moves or more from offset 0 that has reached the track's width
DraggedToEnd ==
  /\ drag.pure /\ drag.n >= 2
  /\ event.name = "move"
  /\ this._x = R(state.trackSize.width)

\* C8: for offsets x1 <= x2 of the track, whatever the track's width, the thumb's
\* width, the range and the step, getValueForX(x1) <= getValueForX(x2) and both lie
\* between minimumValue and maximumValue.
ValueForXIsMonotone ==
  probe.op = "getValueForX" =>
     /\ Le(R(props.minimumValue), probe.fa)
     /\ Le(probe.fa, probe.fb)
     /\ Le(probe.fb, R(props.maximumValue))

\* C9: when the step divides the range, a value of the range taken to its offset and
\* back is the stepped value nearest to it: a multiple of the step from minimumValue
\* that is no further than half a step from the value.
RoundTripKeepsStep ==
  (/\ probe.op = "roundTrip"
   /\ props.step > 0
   /\ (props.maximumValue - props.minimumValue) % props.step = 0) =>
     /\ \E n \in 0..((props.maximumValue - props.minimumValue) \div props.step) :
           probe.fa = R(props.minimumValue + n * props.step)
     /\ Le(MathAbs(Sub(probe.fa, probe.a)), Norm(props.step, 2))

\* the calls of the last handler to onSeekStart and onSeekEnd, in order
SeekCalls == SelectSeq(calls, LAMBDA c : c.cb \in {"onSeekStart", "onSeekEnd"})

\* C10: onSeekStart and onSeekEnd alternate, onSeekStart first, one pair for each
\* touch and release and one for each tap; onSeekStart comes with the grant, which
\* resets the accumulated delta to 0, moves invoke neither, and onSeekEnd comes with
\* the release, after the step snap: it is the last call and sees the snapped offset.
SeekLifecycle ==
  /\ seek.ok
  /\ seek.open = 1 <=> responder = "seeking"
  /\ event.name = "touchStart" =>
        /\ Len(SeekCalls) = 1 /\ calls[1].cb = "onSeekStart"
        /\ this.lastDx = R(0)
  /\ event.name = "move" => SeekCalls = <<>>
  /\ event.name = "release" =>
        /\ Len(SeekCalls) = 1
        /\ calls[Len(calls)].cb = "onSeekEnd"
        /\ calls[Len(calls)].x = get_x(Cur)
        /\ get_x(Cur) = IF props.step > 0
                        THEN getXForValue(Cur, getRoundedValue(Cur,
                                                getValueForX(Cur, event.x0)))
                        ELSE event.x0
  /\ (event.name = "trackPress" /\ ~props.disabled) =>
        /\ Len(SeekCalls) = 2
        /\ calls[1].cb = "onSeekStart"
        /\ calls[Len(calls)].cb = "onSeekEnd"

\* the release of a thumb of a range slider, whose snap moved the thumb's offset
RangeReleaseSnapped ==
  /\ event.name = "release"
  /\ props.useRange /\ props.step > 0
  /\ event.x0 # get_x(Cur)
  /\ calls[Len(calls)].cb = "onSeekEnd"

\* C11: on a disabled slider a gesture move changes nothing: both offsets, the
\* accumulated delta, the displayed thumb and track positions, the committed values
\* and the measured state are as before, and neither onValueChange nor onRangeChange
\* is invoked.
DisabledMoveIsNoOp ==
  [][(event'.name = "move" /\ props.disabled) =>
        /\ this' = this
        /\ state' = state
        /\ \A i \in 1..Len(calls') : ~IsValueCall(calls'[i])]_vars

\* a move was delivered to a disabled, measured slider whose thumb had room to move
DisabledMoveDelivered ==
  /\ event.name = "move"
  /\ props.disabled
  /\ state.measureCompleted
  /\ Lt(R(0), this._x)
  /\ Lt(this._x, R(state.trackSize.width))

\* C12: every pair delivered through onRangeChange is a well-formed sub-interval of
\* the domain, minimumValue <= min <= max <= maximumValue, after any sequence of
\* events on a range slider, in LTR and RTL, with and without disableRTL.
RangeReportsWellFormed ==
  \A i \in 1..Len(calls) :
     calls[i].cb = "onRangeChange" =>
        /\ Le(R(props.minimumValue), calls[i].min)
        /\ Le(calls[i].min, calls[i].max)
        /\ Le(calls[i].max, R(props.maximumValue))

\* a number, neither NaN nor an infinity
IsFinite(a) == a[2] # 0

\* C13: when maximumValue equals minimumValue the conversions divide by no zero:
\* getXForValue of the only value of the range is a number, and so is getValueForX
\* of every offset of the track and of that offset.
DegenerateRangeConverts ==
  props.maximumValue = props.minimumValue =>
     /\ probe.op = "roundTrip" => IsFinite(probe.b) /\ IsFinite(probe.fa)
     /\ probe.op = "getValueForX" => IsFinite(probe.fa) /\ IsFinite(probe.fb)

\* an offset lies on the track
OnTrack(x) == Le(R(0), x) /\ Le(x, R(state.trackSize.width))

\* C14: once the slider is measured, after any moves, releases, taps, accessibility
\* actions, resets and value-prop changes, the primary and the minimum offset both lie
\* in [0, trackWidth], for every valid configuration, also when the step does not
\* divide the range or the minimum is not a multiple of the step.
OffsetsWithinTrack ==
  state.measureCompleted => OnTrack(this._x) /\ OnTrack(this._x_min)

\* C15: after reset() on a measured slider the committed value is the initial value,
\* the committed minimum value is the initial minimum value, the primary offset is
\* getXForValue(initial value), the minimum offset is getXForValue(initial minimum
\* value) and the accumulated delta is 0.
ResetRestoresInitial ==
  event.name = "reset" /\ state.measureCompleted =>
     /\ this.lastValue = this.initialValue
     /\ this.lastMinValue = this.minInitialValue
     /\ this._x = getXForValue(Cur, this.initialValue)
     /\ this._x_min = getXForValue(Cur, this.minInitialValue)
     /\ this.lastDx = R(0)

\* the left edge of the track segment as displayed: where its left was never set the
\* segment stands at the start of the track
SegmentLeft == IF IsNaN(this._minTrackStyles.left) THEN R(0) ELSE this._minTrackStyles.left

\* C16: on a range slider, after every accepted move of either thumb the track
\* segment spans exactly between the thumbs: its left edge is the minimum thumb's
\* displayed left and its left edge plus its width is the primary thumb's displayed
\* left.
SegmentSpansThumbs ==
  (event.name = "move" /\ RangeMove /\ ValueCalls # {}) =>
     /\ SegmentLeft = this._minThumbStyles.left
     /\ Add(SegmentLeft, this._minTrackStyles.width) = this._thumbStyles.left

\* the component as the last handler left it
After == [p |-> props', k |-> Constants', s |-> state', t |-> this', c |-> <<>>, q |-> <<>>]

\* the handler completed the measurement
MeasureCompletes == ~state.measureCompleted /\ state'.measureCompleted

\* C17: when the measurement completes both thumbs are re-derived and applied: the
\* primary offset is getXForValue(initial value), the minimum offset is
\* getXForValue(initial minimum value), and on a range slider each thumb is displayed
\* at the left position of its offset.
MeasurementRederivesThumbs ==
  [][MeasureCompletes =>
        /\ this'._x = getXForValue(After, this'.initialValue)
        /\ this'._x_min = getXForValue(After, this'.minInitialValue)
        /\ props.useRange =>
              /\ this'._thumbStyles.left = leftOf(After, this'._x)
              /\ this'._minThumbStyles.left = leftOf(After, this'._x_min)]_vars

\* the handler was the layout of an element's size field reporting the size the
\* slider already knows for it (the sizes of an element differ in width)
SameSizeLayout(name, field) ==
  event'.name = name /\ this[field] # NoSize /\ event'.arg = this[field].width

\* C18: a layout callback of the container, the track or the thumb that reports the
\* width and height last known for that element is ignored: the measured sizes, the
\* measurement-completed flag, the offsets and the displayed positions are unchanged.
SameSizeLayoutIsIgnored ==
  [][(\/ SameSizeLayout("containerLayout", "containerSize")
      \/ SameSizeLayout("trackLayout", "trackSize")
      \/ SameSizeLayout("thumbLayout", "thumbSize")) =>
        /\ state' = state
        /\ this' = this]_vars

\* C19: once the container, the track and the thumb have each been laid out the
\* measurement is completed, and after orientation changes, each followed by the
\* platform laying the three views out again, the slider returns to the completed
\* measurement and stays there once the events stop.
MeasurementEventuallyCompleted == <>[](state.measureCompleted)

\* C20: while the container, the track or the thumb has not been laid out yet, a
\* gesture move, a release, a tap, an accessibility action, a reset or a change of the
\* value prop changes no offset and no displayed thumb position, and reports no
\* value.
UnmeasuredEventsDoNoPositionMath ==
  [][(IsUserEvent(event'.name) /\ ~measured) =>
        /\ this'._x = this._x
        /\ this'._x_min = this._x_min
        /\ this'._thumbStyles = this._thumbStyles
        /\ this'._minThumbStyles = this._minThumbStyles
        /\ \A i \in 1..Len(calls') : ~IsValueCall(calls'[i])]_vars

\* C21: within one gesture on an enabled slider, while no move has been clamped at 0
\* or at the track's width, after each move the active thumb's offset is its offset
\* at the start of the gesture plus the cumulative delta of that move (negated in RTL
\* unless disableRTL applies), and the other thumb's offset is as it was.
MoveFollowsCumulativeDelta ==
  (event.name = "move" /\ ~props.disabled /\ gesture.free) =>
     /\ get_x(Cur) = Add(gesture.start, Flipped(event.arg))
     /\ (IF isDefaultThumbActive(Cur) THEN this._x_min ELSE this._x) = gesture.other

\* a later move of a gesture, after an earlier one had taken the thumb elsewhere
SecondMoveFollowed ==
  /\ event.name = "move"
  /\ ~props.disabled
  /\ gesture.free
  /\ event.x0 # gesture.start
  /\ get_x(Cur) # event.x0

\* C22: on a measured slider with one thumb, after the value prop changed to v the
\* primary offset is getXForValue of the rounded, clamped v, and the value kept for
\* a later reset and the committed value an orientation change restores are that
\* same rounded, clamped v.
ValuePropResetsValue ==
  (event.name = "valueProp" /\ ~props.useRange /\ state.measureCompleted) =>
     /\ this._x = getXForValue(Cur, getRoundedValue(Cur, R(event.arg)))
     /\ this.initialValue = getRoundedValue(Cur, R(event.arg))
     /\ this.lastValue = getRoundedValue(Cur, R(event.arg))

\* C23: on a disabled slider no input of the user (a touch on a thumb, a move, a
\* release, a tap on the track, an accessibility action) changes an offset, a
\* displayed thumb position or a committed value, and none invokes onValueChange or
\* onRangeChange.
DisabledInputIsNoOp ==
  [][(/\ props.disabled
      /\ event'.name \in {"touchStart", "move", "release", "trackPress",
                          "accessibilityAction"}) =>
        /\ this'._x = this._x
        /\ this'._x_min = this._x_min
        /\ this'._thumbStyles = this._thumbStyles
        /\ this'._minThumbStyles = this._minThumbStyles
        /\ this'.lastValue = this.lastValue
        /\ this'.lastMinValue = this.lastMinValue
        /\ \A i \in 1..Len(calls') : ~IsValueCall(calls'[i])]_vars

\* C24: on a measured slider with one thumb the active thumb is the primary one in
\* every reachable state, whatever gestures, taps, accessibility actions, prop changes
\* and resets happened.
SingleThumbIsActive ==
  (~props.useRange /\ state.measureCompleted) => isDefaultThumbActive(Cur)

====
